---- MODULE Spec2Model ----
(***************************************************************************)
(* Connection lifecycle of InstagramRealtimeBot (src/src/core/             *)
(* realtime-bot.js) driven by HyperInstaRealtime (src/unnamed/part_001).   *)
(*                                                                         *)
(* JavaScript runs every callback to its next await.  An action of this    *)
(* module is one such run: the synchronous part of a call, or the          *)
(* continuation after one awaited network request settles.  The calls of   *)
(* handleReconnection made inside one run are taken one per step, and no   *)
(* other callback runs until they are through (pendingHR = 0).             *)
(***************************************************************************)
EXTENDS Integers, FiniteSets, Sequences, Bags, TLC

VARIABLES
    bot,          \* fields of InstagramRealtimeBot set by the constructor
    timers,       \* the event loop's timers created by the bot
    calls,        \* connectRealtime invocations suspended at an await (a bag)
    ticks,        \* polling-interval callbacks suspended at an await (a bag)
    listeners,    \* listener sets registered on ig.realtime
    channelOpen,  \* environment: the push channel is open
    pendingHR,    \* handleReconnection calls left in the running callback
    phase,        \* position of HyperInstaRealtime.start / shutdown
    telegramBridge, \* config.telegram.enabled: the bridge object exists
    last,         \* history: the step taken last
    errorsInRow,  \* history: consecutive 'error' events since a clean PushConnected
    lastMessageCheck, \* bot field: the polling watermark, in milliseconds
    threadLatest, \* environment: the newest message of each conversation
    nextId,       \* environment: the item id the next message gets
    pollRuns,     \* checkForNewMessages invocations suspended at an await (a bag)
    pushRuns,     \* handleRealtimeMessage invocations suspended at an await (a bag)
    handed,       \* history: the calls of messageHandler.handleMessage (a bag)
    config,       \* the config object, and which copy of MessageHandler is loaded
    cur,          \* the handleMessage call in progress, with what it did so far
    executed,     \* history: handler invocations of the observed (sender, command)
    unhandled,    \* a promise rejected with no handler (process 'unhandledRejection')
    requests,     \* RateLimiter.requests: key -> timestamps
    now,          \* environment: Date.now()
    limit,        \* the maxRequests and windowMs the caller passes to isLimited
    accepted,     \* history: per key, the times of the calls that returned false
    lastCall,     \* history: the last isLimited call and its result
    outbox,       \* requests of the send operations awaiting their answer (a bag)
    sent          \* history: the send operation that returned last

\* the connection lifecycle
connVars == <<bot, timers, calls, ticks, listeners, channelOpen, pendingHR,
              phase, telegramBridge, last, errorsInRow>>

\* the inbound message paths (push listener and polling tick)
inboundVars == <<lastMessageCheck, threadLatest, nextId, pollRuns, pushRuns, handed>>

\* MessageHandler: one message through handleMessage and handleCommand
dispatchVars == <<config, cur, executed, unhandled>>

\* RateLimiter
limiterVars == <<requests, now, limit, accepted, lastCall>>

\* the outbound operations of the bot
sendVars == <<outbox, sent>>

vars == <<connVars, inboundVars, dispatchVars, limiterVars, sendVars>>

----------------------------------------------------------------------------
(* Bounds of the exploration *)
MaxRetryTimers == 3   \* pending reconnection setTimeouts
MaxCalls == 1         \* connectRealtime invocations in flight
MaxTicks == 1         \* polling ticks in flight
MaxCooldowns == 1     \* pending rate-limit cooldown setTimeouts
MaxListeners == 2     \* listener sets stacked on the push client
MaxHandles == 2       \* distinct setInterval handles in use
MaxThreads == 2       \* conversations of the inbox
MaxMessages == 2      \* messages the environment delivers in one run
MaxStamp == 4         \* provider timestamps, in half milliseconds
MaxTime == 2          \* Date.now() during a run of the rate limiter
MaxRequests == 2      \* the largest maxRequests passed to isLimited
MaxWindow == 2        \* the largest windowMs passed to isLimited
MaxSends == 2         \* send operations awaiting their request

(* Program constants *)
maxReconnectAttempts == 3
baseDelayMs == 4000
capDelayMs == 60000

NoHandle == 0
Handles == 1..MaxHandles

Signatures == {"login_required", "403", "429"}

Min(a, b) == IF a <= b THEN a ELSE b

----------------------------------------------------------------------------
(* The world a bot method reads and writes: its own fields and the timers *)
World == [bot |-> bot, timers |-> timers]

FreeHandles(w) == Handles \ (w.timers.intervals \cup {w.bot.pollingInterval})

\* setInterval returns a handle that is not in use
FreshHandle(w) ==
    IF FreeHandles(w) = {} THEN NoHandle
    ELSE CHOOSE h \in FreeHandles(w) : \A g \in FreeHandles(w) : h <= g

\* clearInterval(handle): clearing null or a dead handle does nothing
clearInterval(w, h) == [w EXCEPT !.timers.intervals = @ \ {h}]

\* a variant that arms a second interval when polling is already on
startFallbackPollingNoGuard(w) ==
    [w EXCEPT !.bot.isPolling = TRUE,
              !.bot.isRealtimeConnected = FALSE,
              !.bot.pollingInterval = FreshHandle(w),
              !.timers.intervals = @ \cup {FreshHandle(w)}]

\* a variant that leaves the connected flag as it is
startFallbackPollingKeepsFlag(w) ==
    IF w.bot.isPolling THEN w
    ELSE [w EXCEPT !.bot.isPolling = TRUE,
                   !.bot.pollingInterval = FreshHandle(w),
                   !.timers.intervals = @ \cup {FreshHandle(w)}]

\* startFallbackPolling: a no-op when polling, else the flags and a new interval
startFallbackPolling(w) ==
    IF w.bot.isPolling THEN w
    ELSE [w EXCEPT !.bot.isPolling = TRUE,
                   !.bot.isRealtimeConnected = FALSE,
                   !.bot.pollingInterval = FreshHandle(w),
                   !.timers.intervals = @ \cup {FreshHandle(w)}]

\* a variant that starts the exponent at attempt - 1
reconnectDelayOffByOne(n) == Min(baseDelayMs * 2^(n - 1), capDelayMs)

\* the delay handleReconnection computes for attempt n
reconnectDelay(n) == Min(baseDelayMs * 2^n, capDelayMs)

\* a variant of handleReconnection that never gives up
handleReconnectionNoGiveUp(w) ==
    LET n == w.bot.reconnectAttempts + 1 IN
    [w EXCEPT !.bot.reconnectAttempts = n,
              !.timers.retries =
                  @ (+) SetToBag({[attempt |-> n, delay |-> reconnectDelay(n)]})]

\* a variant that counts an attempt past the maximum
handleReconnectionLateGuard(w) ==
    IF w.bot.reconnectAttempts > maxReconnectAttempts
    THEN startFallbackPolling(w)
    ELSE LET n == w.bot.reconnectAttempts + 1 IN
         [w EXCEPT !.bot.reconnectAttempts = n,
                   !.timers.retries =
                       @ (+) SetToBag({[attempt |-> n, delay |-> reconnectDelay(n)]})]

\* handleReconnection: give up for polling at the maximum, else count and schedule
handleReconnection(w) ==
    IF w.bot.reconnectAttempts >= maxReconnectAttempts
    THEN startFallbackPolling(w)
    ELSE LET n == w.bot.reconnectAttempts + 1 IN
         [w EXCEPT !.bot.reconnectAttempts = n,
                   !.timers.retries =
                       @ (+) SetToBag({[attempt |-> n, delay |-> reconnectDelay(n)]})]

\* a variant that forgets to raise the connected flag
connectOpenedNoFlag(w) == [w EXCEPT !.bot.reconnectAttempts = 0]

\* connectRealtime after ig.realtime.connect resolved
connectOpened(w) ==
    [w EXCEPT !.bot.isRealtimeConnected = TRUE, !.bot.reconnectAttempts = 0]

\* the listeners of 'error' and 'disconnect', before their handleReconnection
connectionLost(w) == [w EXCEPT !.bot.isRealtimeConnected = FALSE]

WithinBounds(w) ==
    /\ BagCardinality(w.timers.retries) <= MaxRetryTimers
    /\ w.timers.cooldowns <= MaxCooldowns
    /\ w.bot.isPolling => w.bot.pollingInterval # NoHandle

Set(w) == /\ WithinBounds(w)
          /\ bot' = w.bot
          /\ timers' = w.timers

One(x) == SetToBag({x})

----------------------------------------------------------------------------
(* Inbound messages: what the provider delivers *)

\* microseconds per millisecond: new Date(message.timestamp / 1000)
UsPerMs == 1000

Threads == 1..MaxThreads

\* account ids as the provider sends them (numbers); the bot's own is the first
UserIds == {100, 200}

\* Number.prototype.toString on an account id
toString(n) == IF n = 100 THEN "100" ELSE "200"

\* ig.state.cookieUserId: the bot's own account id, a string
cookieUserId == "100"

\* provider timestamps, microseconds since the epoch
StampsUs == {k * (UsPerMs \div 2) : k \in 1..MaxStamp}

\* new Date(message.timestamp / 1000), as compared by > (its time value:
\* the Date constructor drops the fraction of a millisecond)
messageTime(m) == m.timestamp \div UsPerMs

\* no message: an empty thread feed
NoMessage == [item_id |-> 0, user_id |-> 0, thread_id |-> 0, timestamp |-> 0]

\* a variant of the comparison that also takes a message at the watermark
isNewAtWatermark(m, watermark) == messageTime(m) >= watermark

\* isNewMessage: the comparison
isNew(m, watermark) == messageTime(m) > watermark

\* a variant that leaves the watermark where it was
isNewMessageKeeps(m, watermark) == watermark

\* isNewMessage: the watermark it leaves
isNewMessage(m, watermark) == IF isNew(m, watermark) THEN messageTime(m) ELSE watermark

\* a variant without the own-message test
isOwnMessageNever(m) == FALSE

\* the own-message test of handleRealtimeMessage and handlePollingMessage
isOwnMessage(m) == toString(m.user_id) = cookieUserId

\* the bot constructed, nothing delivered yet
InboundIdle ==
    /\ threadLatest = [t \in Threads |-> NoMessage]
    /\ nextId = 1
    /\ pollRuns = EmptyBag
    /\ pushRuns = EmptyBag
    /\ handed = EmptyBag

----------------------------------------------------------------------------
(* The configuration, and the message handler and rate limiter at rest *)

\* no handleMessage call in progress
Idle == [pc |-> "idle"]

\* process.env values that decide the configuration: ADMIN_USERS lists
AdminEnv == {{}, {"Alice"}}

\* String.prototype.toLowerCase on the handles used here
toLowerCase(u) == IF u = "Alice" THEN "alice" ELSE IF u = "Bob" THEN "bob" ELSE u

\* the config object built from the environment; variant names the copy of
\* message-handler.js in use ("config": the one in src/src/config.js,
\* "realtime": the one in src/src/core/realtime-bot.js)
Config(variant, seen, unknown, admins) ==
    [variant |-> variant,
     markAsSeen |-> seen,
     respondToUnknownCommands |-> unknown,
     adminUsers |-> {toLowerCase(u) : u \in admins}]

\* the configuration with no environment variable set
DefaultConfig == Config("config", TRUE, TRUE, {})

DispatchIdle ==
    /\ cur = Idle
    /\ executed = 0
    /\ unhandled = FALSE

\* keys handed to the rate limiter
Keys == {"k1", "k2"}

\* new RateLimiter(): an empty map; no call made yet
LimiterIdle ==
    /\ requests = [k \in {} |-> <<>>]
    /\ accepted = [k \in Keys |-> <<>>]
    /\ lastCall = [key |-> "none", limited |-> FALSE, flip |-> FALSE]

\* no send operation called yet
NoSend == [op |-> "none", state |-> "none", via |-> "none", outcome |-> "none",
           result |-> "none"]

SendIdle ==
    /\ outbox = EmptyBag
    /\ sent = NoSend

\* the defaults of isLimited's parameters
maxRequests == 5
windowMs == 60000

\* getStats(): the fields that report the connection
getStats(b) == [connected |-> b.isRealtimeConnected, polling |-> b.isPolling,
                reconnectAttempts |-> b.reconnectAttempts]

\* the health check's test: does it log its warning
healthWarns(stats) == ~stats.connected /\ ~stats.polling

----------------------------------------------------------------------------
Init ==
    /\ lastMessageCheck = 0
    /\ InboundIdle
    /\ config = DefaultConfig
    /\ DispatchIdle
    /\ now = 0
    /\ limit = [maxRequests |-> maxRequests, windowMs |-> windowMs]
    /\ LimiterIdle
    /\ SendIdle
    /\ bot = [isRealtimeConnected |-> FALSE, isPolling |-> FALSE,
              reconnectAttempts |-> 0, pollingInterval |-> NoHandle]
    /\ timers = [intervals |-> {}, retries |-> EmptyBag, cooldowns |-> 0]
    /\ calls = EmptyBag
    /\ ticks = EmptyBag
    /\ listeners = 0
    /\ channelOpen = FALSE
    /\ pendingHR = 0
    /\ phase = "constructed"
    /\ telegramBridge \in BOOLEAN
    /\ last = [op |-> "new", info |-> "none"]
    /\ errorsInRow = 0

Alive == phase # "exited" /\ pendingHR = 0

\* HyperInstaRealtime.initialize reaches connectRealtime, which awaits the inbox
Initialize ==
    /\ Alive /\ phase = "constructed"
    /\ calls' = calls (+) One([caller |-> "initialize", pc |-> "inbox"])
    /\ phase' = "startup"
    /\ last' = [op |-> "Initialize", info |-> "none"]
    /\ errorsInRow' = 0
    /\ UNCHANGED <<bot, timers, ticks, listeners, channelOpen, pendingHR, telegramBridge>>
    /\ UNCHANGED <<inboundVars, dispatchVars, limiterVars, sendVars>>

\* the caller of a connectRealtime that returned or threw goes on
Returned(c) == IF c.caller = "initialize" THEN "running" ELSE phase

\* connectRealtime: the inbox request threw
ConnectInboxFails(c) ==
    /\ Alive /\ BagIn(c, calls) /\ c.pc = "inbox"
    /\ Set(startFallbackPolling(World))
    /\ calls' = calls (-) One(c)
    /\ phase' = Returned(c)
    /\ last' = [op |-> "ConnectInboxFails", info |-> c.caller]
    /\ errorsInRow' = 0
    /\ UNCHANGED <<ticks, listeners, channelOpen, pendingHR, telegramBridge>>
    /\ UNCHANGED <<inboundVars, dispatchVars, limiterVars, sendVars>>

\* connectRealtime: the inbox request resolved; listeners set up, connect awaited
ConnectInboxOk(c) ==
    /\ Alive /\ BagIn(c, calls) /\ c.pc = "inbox"
    /\ listeners' = listeners + 1
    /\ calls' = (calls (-) One(c)) (+) One([c EXCEPT !.pc = "connect"])
    /\ last' = [op |-> "ConnectInboxOk", info |-> c.caller]
    /\ errorsInRow' = 0
    /\ UNCHANGED <<bot, timers, ticks, channelOpen, pendingHR, phase, telegramBridge>>
    /\ UNCHANGED <<inboundVars, dispatchVars, limiterVars, sendVars>>

\* connectRealtime: ig.realtime.connect resolved
ConnectOpens(c) ==
    /\ Alive /\ BagIn(c, calls) /\ c.pc = "connect"
    /\ Set(connectOpened(World))
    /\ channelOpen' = TRUE
    /\ calls' = calls (-) One(c)
    /\ phase' = Returned(c)
    /\ last' = [op |-> "ConnectOpens", info |-> c.caller]
    /\ errorsInRow' = 0
    /\ UNCHANGED <<ticks, listeners, pendingHR, telegramBridge>>
    /\ UNCHANGED <<inboundVars, dispatchVars, limiterVars, sendVars>>

\* connectRealtime: ig.realtime.connect threw; the catch calls handleReconnection
\* and rethrows; a retry timer's callback catches that and calls it again
ConnectFails(c) ==
    /\ Alive /\ BagIn(c, calls) /\ c.pc = "connect"
    /\ pendingHR' = IF c.caller = "timer" THEN 2 ELSE 1
    /\ calls' = calls (-) One(c)
    /\ phase' = Returned(c)
    /\ last' = [op |-> "ConnectFails", info |-> c.caller]
    /\ errorsInRow' = 0
    /\ UNCHANGED <<bot, timers, ticks, listeners, channelOpen, telegramBridge>>
    /\ UNCHANGED <<inboundVars, dispatchVars, limiterVars, sendVars>>

\* one call of handleReconnection inside the running callback
HandleReconnection ==
    /\ phase # "exited" /\ pendingHR > 0
    /\ Set(handleReconnection(World))
    /\ pendingHR' = pendingHR - 1
    /\ last' = [op |-> "HandleReconnection",
                info |-> IF bot.reconnectAttempts >= maxReconnectAttempts
                         THEN "giveup" ELSE "retry"]
    /\ errorsInRow' = errorsInRow
    /\ UNCHANGED <<calls, ticks, listeners, channelOpen, phase, telegramBridge>>
    /\ UNCHANGED <<inboundVars, dispatchVars, limiterVars, sendVars>>

\* a reconnection setTimeout fires: its callback calls connectRealtime
RetryTimerFires(t) ==
    /\ Alive /\ BagIn(t, timers.retries)
    /\ BagCardinality(calls) < MaxCalls
    /\ timers' = [timers EXCEPT !.retries = @ (-) One(t)]
    /\ calls' = calls (+) One([caller |-> "timer", pc |-> "inbox"])
    /\ last' = [op |-> "RetryTimerFires", info |-> "none"]
    /\ errorsInRow' = 0
    /\ UNCHANGED <<bot, ticks, listeners, channelOpen, pendingHR, phase, telegramBridge>>
    /\ UNCHANGED <<inboundVars, dispatchVars, limiterVars, sendVars>>

\* PushConnected right after a first successful connect: one listener set, no
\* attempt counted, nothing pending
CleanPushConnected ==
    /\ bot.isRealtimeConnected /\ ~bot.isPolling /\ bot.reconnectAttempts = 0
    /\ listeners = 1 /\ timers.retries = EmptyBag /\ calls = EmptyBag

\* the push client emits 'error': every registered error listener runs
PushError ==
    /\ Alive /\ channelOpen /\ listeners > 0
    /\ Set(connectionLost(World))
    /\ pendingHR' = listeners
    /\ last' = [op |-> "PushError", info |-> "none"]
    /\ errorsInRow' = IF errorsInRow > 0 THEN Min(errorsInRow + 1, maxReconnectAttempts + 1)
                      ELSE IF CleanPushConnected THEN 1 ELSE 0
    /\ UNCHANGED <<calls, ticks, listeners, channelOpen, phase, telegramBridge>>
    /\ UNCHANGED <<inboundVars, dispatchVars, limiterVars, sendVars>>

\* the push client emits 'disconnect': every registered disconnect listener runs
PushDisconnect ==
    /\ Alive /\ channelOpen /\ listeners > 0
    /\ Set(connectionLost(World))
    /\ channelOpen' = FALSE
    /\ pendingHR' = listeners
    /\ last' = [op |-> "PushDisconnect", info |-> "none"]
    /\ errorsInRow' = 0
    /\ UNCHANGED <<calls, ticks, listeners, phase, telegramBridge>>
    /\ UNCHANGED <<inboundVars, dispatchVars, limiterVars, sendVars>>

\* the setInterval callback of startFallbackPolling starts: checkForNewMessages
\* is awaited when isPolling is set
PollTick(h) ==
    /\ Alive /\ h \in timers.intervals
    /\ BagCardinality(ticks) < MaxTicks
    /\ ticks' = IF bot.isPolling THEN ticks (+) One("check") ELSE ticks
    /\ last' = [op |-> "PollTick", info |-> IF bot.isPolling THEN "check" ELSE "skip"]
    /\ errorsInRow' = 0
    /\ UNCHANGED <<bot, timers, calls, listeners, channelOpen, pendingHR, phase, telegramBridge>>
    /\ UNCHANGED <<inboundVars, dispatchVars, limiterVars, sendVars>>

\* checkForNewMessages returned: the tick is over
TickCheckDone ==
    /\ Alive /\ BagIn("check", ticks)
    /\ ticks' = ticks (-) One("check")
    /\ last' = [op |-> "TickCheckDone", info |-> "none"]
    /\ errorsInRow' = 0
    /\ UNCHANGED <<bot, timers, calls, listeners, channelOpen, pendingHR, phase, telegramBridge>>
    /\ UNCHANGED <<inboundVars, dispatchVars, limiterVars, sendVars>>

\* what the tick's catch does with an error whose message holds the signatures sigs
TickBranch(sigs) ==
    IF "login_required" \in sigs THEN "login"
    ELSE IF "403" \in sigs \/ "429" \in sigs THEN "ratelimit"
    ELSE "ignore"

\* the rate-limit branch: clearInterval(this.pollingInterval), then a cooldown setTimeout
rateLimitPause(w) ==
    [clearInterval(w, w.bot.pollingInterval) EXCEPT !.timers.cooldowns = @ + 1]

\* checkForNewMessages threw (the inbox page request failed)
TickCheckFails(sigs) ==
    /\ Alive /\ BagIn("check", ticks)
    /\ ticks' = IF TickBranch(sigs) = "login"
                THEN (ticks (-) One("check")) (+) One("login")
                ELSE ticks (-) One("check")
    /\ Set(IF TickBranch(sigs) = "ratelimit" THEN rateLimitPause(World) ELSE World)
    /\ last' = [op |-> "TickCheckFails", info |-> TickBranch(sigs)]
    /\ errorsInRow' = 0
    /\ UNCHANGED <<calls, listeners, channelOpen, pendingHR, phase, telegramBridge>>
    /\ UNCHANGED <<inboundVars, dispatchVars, limiterVars, sendVars>>

\* a variant whose catch does not contain a failed re-login: the rejection is
\* unhandled and the process's handler shuts down
reloginSettledUncaught(ok) == IF ok \/ phase # "running" THEN phase ELSE "shutdown"

\* the phase after the inline this.login() settled: its failure is caught and logged
reloginSettled(ok) == phase

\* the tick's inline re-login settled
TickLoginDone(ok) ==
    /\ Alive /\ BagIn("login", ticks)
    /\ ticks' = ticks (-) One("login")
    /\ phase' = reloginSettled(ok)
    /\ last' = [op |-> "TickLoginDone", info |-> IF ok THEN "ok" ELSE "threw"]
    /\ errorsInRow' = 0
    /\ UNCHANGED <<bot, timers, calls, listeners, channelOpen, pendingHR, telegramBridge>>
    /\ UNCHANGED <<inboundVars, dispatchVars, limiterVars, sendVars>>

\* the callback of the cooldown setTimeout
cooldownElapsed(w) == IF w.bot.isPolling THEN startFallbackPolling(w) ELSE w

\* a rate-limit cooldown setTimeout fires
CooldownFires ==
    /\ Alive /\ timers.cooldowns > 0
    /\ Set(cooldownElapsed([World EXCEPT !.timers.cooldowns = @ - 1]))
    /\ last' = [op |-> "CooldownFires", info |-> IF bot.isPolling THEN "polling" ELSE "idle"]
    /\ errorsInRow' = 0
    /\ UNCHANGED <<calls, ticks, listeners, channelOpen, pendingHR, phase, telegramBridge>>
    /\ UNCHANGED <<inboundVars, dispatchVars, limiterVars, sendVars>>

\* disconnect() up to its first await
disconnectBegin(w) ==
    [clearInterval(w, w.bot.pollingInterval)
        EXCEPT !.bot.pollingInterval = NoHandle,
               !.bot.isPolling = FALSE,
               !.bot.isRealtimeConnected = FALSE]

\* shutdown(signal) calls disconnect(), which awaits ig.realtime.disconnect()
Disconnect ==
    /\ Alive /\ phase = "running"
    /\ Set(disconnectBegin(World))
    /\ phase' = "closing"
    /\ last' = [op |-> "Disconnect", info |-> "none"]
    /\ errorsInRow' = 0
    /\ UNCHANGED <<calls, ticks, listeners, channelOpen, pendingHR, telegramBridge>>
    /\ UNCHANGED <<inboundVars, dispatchVars, limiterVars, sendVars>>

\* shutdown after disconnect() returned: the bridge's disconnect is awaited when
\* there is a bridge, then process.exit
AfterDisconnect == IF telegramBridge THEN "returned" ELSE "exited"

\* ig.realtime.disconnect() settled; a throw is caught at the end of disconnect()
DisconnectClosed(ok) ==
    /\ Alive /\ phase = "closing"
    /\ channelOpen' = IF ok THEN FALSE ELSE channelOpen
    /\ phase' = IF ok THEN "saving" ELSE AfterDisconnect
    /\ last' = [op |-> "DisconnectClosed", info |-> IF ok THEN "ok" ELSE "threw"]
    /\ errorsInRow' = 0
    /\ UNCHANGED <<bot, timers, calls, ticks, listeners, pendingHR, telegramBridge>>
    /\ UNCHANGED <<inboundVars, dispatchVars, limiterVars, sendVars>>

\* saveCookiesToDb and moduleManager.cleanup settled; disconnect() returns
DisconnectSaved(ok) ==
    /\ Alive /\ phase = "saving"
    /\ phase' = AfterDisconnect
    /\ last' = [op |-> "DisconnectSaved", info |-> IF ok THEN "ok" ELSE "threw"]
    /\ errorsInRow' = 0
    /\ UNCHANGED <<bot, timers, calls, ticks, listeners, channelOpen, pendingHR, telegramBridge>>
    /\ UNCHANGED <<inboundVars, dispatchVars, limiterVars, sendVars>>

\* telegramBridge.disconnect() settled: process.exit
Exit ==
    /\ Alive /\ phase = "returned"
    /\ phase' = "exited"
    /\ last' = [op |-> "Exit", info |-> "none"]
    /\ errorsInRow' = 0
    /\ UNCHANGED <<bot, timers, calls, ticks, listeners, channelOpen, pendingHR, telegramBridge>>
    /\ UNCHANGED <<inboundVars, dispatchVars, limiterVars, sendVars>>

\* explored up to MaxListeners listener sets on the push client
Next ==
    \/ Initialize
    \/ \E c \in BagToSet(calls) : ConnectInboxFails(c)
    \/ \E c \in BagToSet(calls) : listeners < MaxListeners /\ ConnectInboxOk(c)
    \/ \E c \in BagToSet(calls) : ConnectOpens(c)
    \/ \E c \in BagToSet(calls) : ConnectFails(c)
    \/ HandleReconnection
    \/ \E t \in BagToSet(timers.retries) : RetryTimerFires(t)
    \/ PushError
    \/ PushDisconnect
    \/ \E h \in timers.intervals : PollTick(h)
    \/ TickCheckDone
    \/ \E sigs \in SUBSET Signatures : TickCheckFails(sigs)
    \/ \E ok \in BOOLEAN : TickLoginDone(ok)
    \/ CooldownFires
    \/ Disconnect
    \/ \E ok \in BOOLEAN : DisconnectClosed(ok)
    \/ \E ok \in BOOLEAN : DisconnectSaved(ok)
    \/ Exit

Spec == Init /\ [][Next]_vars

----------------------------------------------------------------------------
(* The inbound message paths: the push 'message' listener and the polling    *)
(* tick's checkForNewMessages, up to the call of handleMessage               *)

\* threads examined per tick: inbox.slice(0, 3)
threadsPerTick == 3

\* the conversations of S, the most recently active first
RECURSIVE byRecency(_, _)
byRecency(latest, S) ==
    IF S = {} THEN <<>>
    ELSE LET t == CHOOSE t \in S : \A u \in S : latest[t].timestamp >= latest[u].timestamp
         IN  <<t>> \o byRecency(latest, S \ {t})

\* what directInbox().items() returns: the conversations that hold a message,
\* the most recently active first
InboxPage(latest) == byRecency(latest, {t \in DOMAIN latest : latest[t] # NoMessage})

\* a variant that examines the whole page
sliceWholePage(p) == p

\* inbox.slice(0, 3)
slice(p) == SubSeq(p, 1, Min(Len(p), threadsPerTick))

\* a bag of n copies of x
Copies(x, n) == IF n > 0 THEN [y \in {x} |-> n] ELSE EmptyBag

\* an entry of the history: handleMessage(processedMessage) was called
Handed(via, m) == [via |-> via, id |-> m.item_id, threadId |-> m.thread_id,
                   sender |-> m.user_id, timestamp |-> messageTime(m)]

\* the bot in PushConnected as connectRealtime leaves it: one listener set
\* after the first connect, one more after each reconnect
PushMode(n) ==
    /\ bot = [isRealtimeConnected |-> TRUE, isPolling |-> FALSE,
              reconnectAttempts |-> 0, pollingInterval |-> NoHandle]
    /\ timers = [intervals |-> {}, retries |-> EmptyBag, cooldowns |-> 0]
    /\ listeners = n
    /\ channelOpen = TRUE

\* the bot in Polling, as startFallbackPolling leaves it after the give-up
PollMode ==
    /\ bot = [isRealtimeConnected |-> FALSE, isPolling |-> TRUE,
              reconnectAttempts |-> maxReconnectAttempts, pollingInterval |-> 1]
    /\ timers = [intervals |-> {1}, retries |-> EmptyBag, cooldowns |-> 0]
    /\ listeners = 1
    /\ channelOpen = FALSE

\* the process running with no connection work in flight
Running ==
    /\ calls = EmptyBag
    /\ ticks = EmptyBag
    /\ pendingHR = 0
    /\ phase = "running"
    /\ last = [op |-> "new", info |-> "none"]
    /\ errorsInRow = 0

InboundInit ==
    /\ Running
    /\ telegramBridge = FALSE
    /\ config = DefaultConfig
    /\ DispatchIdle
    /\ now = 0
    /\ limit = [maxRequests |-> maxRequests, windowMs |-> windowMs]
    /\ LimiterIdle
    /\ SendIdle
    /\ PollMode \/ \E n \in {1, 2} : PushMode(n)
    /\ lastMessageCheck = 0
    /\ InboundIdle

\* handleRealtimeMessage up to its await: does it go on to getThreadInfo?
\* shape tells which fields the wrapper carries
realtimeAccepts(m, shape) ==
    /\ shape # "noitem"
    /\ ~isOwnMessage(m)
    /\ shape # "nothread"

\* a message is posted to conversation t by account u; the provider stamps it
\* with its clock, which has passed every earlier stamp; an open push channel
\* emits 'message' and every registered listener runs handleRealtimeMessage
Arrives(t, u, ts, shape) ==
    LET m == [item_id |-> nextId, user_id |-> u, thread_id |-> t, timestamp |-> ts]
    IN  /\ nextId <= MaxMessages
        /\ \A c \in Threads : ts > threadLatest[c].timestamp
        /\ threadLatest' = [threadLatest EXCEPT ![t] = m]
        /\ nextId' = nextId + 1
        /\ pushRuns' = IF channelOpen /\ realtimeAccepts(m, shape)
                       THEN pushRuns (+) Copies([pc |-> "info", msg |-> m], listeners)
                       ELSE pushRuns
        /\ UNCHANGED <<lastMessageCheck, pollRuns, handed>>
        /\ UNCHANGED <<connVars, dispatchVars, limiterVars, sendVars>>

\* getThreadInfo settled (null when the request failed): handleMessage is called
ThreadInfo(r, ok) ==
    /\ BagIn(r, pushRuns) /\ r.pc = "info"
    /\ pushRuns' = IF ok THEN (pushRuns (-) One(r)) (+) One([r EXCEPT !.pc = "handle"])
                   ELSE pushRuns (-) One(r)
    /\ handed' = IF ok THEN handed (+) One(Handed("push", r.msg)) ELSE handed
    /\ UNCHANGED <<lastMessageCheck, threadLatest, nextId, pollRuns>>
    /\ UNCHANGED <<connVars, dispatchVars, limiterVars, sendVars>>

\* handleMessage returned to handleRealtimeMessage
PushHandled(r) ==
    /\ BagIn(r, pushRuns) /\ r.pc = "handle"
    /\ pushRuns' = pushRuns (-) One(r)
    /\ UNCHANGED <<lastMessageCheck, threadLatest, nextId, pollRuns, handed>>
    /\ UNCHANGED <<connVars, dispatchVars, limiterVars, sendVars>>

\* the interval callback calls checkForNewMessages, which awaits the inbox
\* page; start notes the watermark the tick found
CheckForNewMessages ==
    /\ bot.isPolling /\ timers.intervals # {}
    /\ pollRuns' = pollRuns (+) One([pc |-> "inbox", queue |-> <<>>,
                                     msg |-> NoMessage, fresh |-> FALSE,
                                     start |-> lastMessageCheck])
    /\ UNCHANGED <<lastMessageCheck, threadLatest, nextId, pushRuns, handed>>
    /\ UNCHANGED <<connVars, dispatchVars, limiterVars, sendVars>>

\* the run after one conversation is through: the next one (the message of
\* the last one is out of scope), or the end
nextThread(runs, r) ==
    IF Len(r.queue) > 1
    THEN (runs (-) One(r)) (+) One([r EXCEPT !.pc = "thread", !.queue = Tail(@),
                                             !.msg = NoMessage, !.fresh = FALSE])
    ELSE runs (-) One(r)

\* the inbox page arrived: nothing to do on an empty page, else the first
\* conversation's feed is requested
InboxItems(r) ==
    /\ BagIn(r, pollRuns) /\ r.pc = "inbox"
    /\ pollRuns' = IF Len(InboxPage(threadLatest)) = 0 THEN pollRuns (-) One(r)
                   ELSE (pollRuns (-) One(r)) (+)
                        One([r EXCEPT !.pc = "thread",
                                      !.queue = slice(InboxPage(threadLatest))])
    /\ UNCHANGED <<lastMessageCheck, threadLatest, nextId, pushRuns, handed>>
    /\ UNCHANGED <<connVars, dispatchVars, limiterVars, sendVars>>

\* the inbox request failed: checkForNewMessages rethrows to the tick
InboxFails(r) ==
    /\ BagIn(r, pollRuns) /\ r.pc = "inbox"
    /\ pollRuns' = pollRuns (-) One(r)
    /\ UNCHANGED <<lastMessageCheck, threadLatest, nextId, pushRuns, handed>>
    /\ UNCHANGED <<connVars, dispatchVars, limiterVars, sendVars>>

\* checkThreadMessages after the conversation's feed settled (ok: it did not
\* throw): isNewMessage on the newest message, then handlePollingMessage
ThreadItems(r, ok) ==
    LET m == threadLatest[Head(r.queue)]
        examined == ok /\ m # NoMessage
        new == examined /\ isNew(m, lastMessageCheck)
        call == new /\ ~isOwnMessage(m)
    IN  /\ BagIn(r, pollRuns) /\ r.pc = "thread"
        /\ lastMessageCheck' = IF examined THEN isNewMessage(m, lastMessageCheck)
                               ELSE lastMessageCheck
        /\ handed' = IF call THEN handed (+) One(Handed("poll", m)) ELSE handed
        /\ pollRuns' = (pollRuns (-) One(r)) (+)
                       One([r EXCEPT !.pc = IF call THEN "handle" ELSE "delay",
                                     !.msg = IF examined THEN m ELSE NoMessage,
                                     !.fresh = new])
        /\ UNCHANGED <<threadLatest, nextId, pushRuns>>
        /\ UNCHANGED <<connVars, dispatchVars, limiterVars, sendVars>>

\* handleMessage returned to handlePollingMessage: the 3 s delay starts
PollHandled(r) ==
    /\ BagIn(r, pollRuns) /\ r.pc = "handle"
    /\ pollRuns' = (pollRuns (-) One(r)) (+) One([r EXCEPT !.pc = "delay"])
    /\ UNCHANGED <<lastMessageCheck, threadLatest, nextId, pushRuns, handed>>
    /\ UNCHANGED <<connVars, dispatchVars, limiterVars, sendVars>>

\* the delay between conversations elapsed
DelayDone(r) ==
    /\ BagIn(r, pollRuns) /\ r.pc = "delay"
    /\ pollRuns' = nextThread(pollRuns, r)
    /\ UNCHANGED <<lastMessageCheck, threadLatest, nextId, pushRuns, handed>>
    /\ UNCHANGED <<connVars, dispatchVars, limiterVars, sendVars>>

InboundNext ==
    \/ \E t \in Threads, u \in UserIds, ts \in StampsUs,
          shape \in {"full", "noitem", "nothread"} : Arrives(t, u, ts, shape)
    \/ \E r \in BagToSet(pushRuns), ok \in BOOLEAN : ThreadInfo(r, ok)
    \/ \E r \in BagToSet(pushRuns) : PushHandled(r)
    \* explored up to MaxTicks ticks in flight
    \/ BagCardinality(pollRuns) < MaxTicks /\ CheckForNewMessages
    \/ \E r \in BagToSet(pollRuns) : InboxItems(r)
    \/ \E r \in BagToSet(pollRuns) : InboxFails(r)
    \/ \E r \in BagToSet(pollRuns), ok \in BOOLEAN : ThreadItems(r, ok)
    \/ \E r \in BagToSet(pollRuns) : PollHandled(r)
    \/ \E r \in BagToSet(pollRuns) : DelayDone(r)

InboundSpec == InboundInit /\ [][InboundNext]_vars

----------------------------------------------------------------------------
(* Polling ticks over an inbox that holds more conversations than a tick     *)
(* examines, with a later tick starting while an earlier one is under way    *)

\* the conversations of the page: one more than a tick examines
PageThreads == 1..(threadsPerTick + 1)

\* the provider's stamp on the latest message of conversation t: half a
\* millisecond apart, a conversation of a lower number the more recent one
stampOf(t) == (threadsPerTick + 2 - t) * (UsPerMs \div 2)

\* the inboxes polling can find: the first n conversations hold a message, of
\* either account
Inboxes ==
    {[t \in PageThreads |->
         IF t <= n THEN [item_id |-> t, user_id |-> u[t], thread_id |-> t,
                         timestamp |-> stampOf(t)]
         ELSE NoMessage] :
       n \in 0..(threadsPerTick + 1), u \in [PageThreads -> UserIds]}

TickInit ==
    /\ Running
    /\ telegramBridge = FALSE
    /\ config = DefaultConfig
    /\ DispatchIdle
    /\ now = 0
    /\ limit = [maxRequests |-> maxRequests, windowMs |-> windowMs]
    /\ LimiterIdle
    /\ SendIdle
    /\ PollMode
    /\ lastMessageCheck = 0
    /\ threadLatest \in Inboxes
    /\ nextId = threadsPerTick + 2
    /\ pollRuns = EmptyBag
    /\ pushRuns = EmptyBag
    /\ handed = EmptyBag

TickNext ==
    \* explored up to MaxTicks ticks overlapping the one under way
    \/ BagCardinality(pollRuns) <= MaxTicks /\ CheckForNewMessages
    \/ \E r \in BagToSet(pollRuns) : InboxItems(r)
    \/ \E r \in BagToSet(pollRuns) : InboxFails(r)
    \/ \E r \in BagToSet(pollRuns), ok \in BOOLEAN : ThreadItems(r, ok)
    \/ \E r \in BagToSet(pollRuns) : PollHandled(r)
    \/ \E r \in BagToSet(pollRuns) : DelayDone(r)

TickSpec == TickInit /\ [][TickNext]_vars

----------------------------------------------------------------------------
(* MessageHandler: handleMessage and handleCommand (both copies), with the   *)
(* commands of CoreModule and HelpModule (src/src/modules/core.module.js)    *)

\* message texts are sequences of symbols: the trigger ".", the blank " ",
\* and words (strings without either)
Texts ==
    { <<".", "ping">>, <<".", "status">>, <<".", "react", " ", "fire">>,
      <<".", "react">>, <<".", "react", " ", " ", "fire">>, <<".", "typing">>,
      <<".", "help", " ", "ping">>, <<".", "commands">>, <<".", "nope">>,
      <<".", " ", "ping">>, <<".">>, <<" ", ".", "ping">>, <<"hello">> }

\* sender handles as the provider spells them
Usernames == {"alice", "Alice", "bob"}

\* item ids of the messages
ItemIds == {11, 12}

\* the processedMessage objects handed to handleMessage
Messages == [text : Texts, senderUsername : Usernames, threadId : Threads, id : ItemIds]

\* a variant that takes a text for a command only when a name follows the trigger
startsWithName(text, c) == Len(text) > 1 /\ text[1] = c /\ text[2] # " "

\* message.text?.startsWith('.')
startsWith(text, c) == Len(text) > 0 /\ text[1] = c

\* String.prototype.trim
RECURSIVE trim(_)
trim(s) ==
    IF Len(s) = 0 THEN s
    ELSE IF s[1] = " " THEN trim(Tail(s))
    ELSE IF s[Len(s)] = " " THEN trim(SubSeq(s, 1, Len(s) - 1))
    ELSE s

\* String.prototype.split(' '): one piece more than there are blanks
RECURSIVE split(_)
split(s) ==
    IF \A i \in DOMAIN s : s[i] # " " THEN <<s>>
    ELSE LET i == CHOOSE i \in DOMAIN s : s[i] = " " /\ \A j \in 1..(i - 1) : s[j] # " "
         IN  <<SubSeq(s, 1, i - 1)>> \o split(SubSeq(s, i + 1, Len(s)))

\* a piece as a string: "" for the empty piece, the word for a one-word piece
word(piece) == IF Len(piece) = 0 THEN "" ELSE IF Len(piece) = 1 THEN piece[1] ELSE "other"

\* handleCommand's parse: message.text.slice(1).trim().split(' ')
parse(text) ==
    LET pieces == split(trim(Tail(text)))
    IN  [commandName |-> word(pieces[1]),
         args |-> [i \in 1..(Len(pieces) - 1) |-> word(pieces[i + 1])]]

\* the commands CoreModule.getCommands and HelpModule.getCommands return
Commands ==
    [ping |-> [adminOnly |-> FALSE], status |-> [adminOnly |-> TRUE],
     react |-> [adminOnly |-> FALSE], typing |-> [adminOnly |-> FALSE],
     help |-> [adminOnly |-> FALSE], commands |-> [adminOnly |-> FALSE]]

\* moduleManager.getCommand(commandName): is there such a command
hasCommand(commandName) == commandName \in DOMAIN Commands

\* a variant of isAdmin that compares the handle as spelled
isAdminExact(cfg, username) == username \in cfg.adminUsers

\* isAdmin(username)
isAdmin(cfg, username) == toLowerCase(username) \in cfg.adminUsers

\* isRateLimited(username, commandName)
isRateLimited(username, commandName) == FALSE

\* what the handler does to the platform, as calls of the bot:
\* sendMessage(threadId, text), sendReaction(threadId, id, emoji),
\* indicateTyping(threadId, on), markAsSeen(threadId, id); and the calls of a
\* command handler and of telegramBridge.forwardMessage
Op(op, m, arg, args) ==
    [op |-> op, threadId |-> m.threadId,
     id |-> IF op \in {"sendReaction", "markAsSeen"} THEN m.id ELSE 0,
     arg |-> arg, args |-> args]

\* context.reply(text) / this.instagramBot.sendMessage(message.threadId, text)
reply(m, kind) == Op("sendMessage", m, kind, <<>>)

\* what a handler (or a callback it deferred) did: the bot calls it made, the
\* callbacks it left with setTimeout, and whether it threw
Did(ops, deferred, threw) == [ops |-> ops, deferred |-> deferred, threw |-> threw]

\* a handler that throws before its first call of the bot
Threw == Did(<<>>, {}, TRUE)

\* the handlers that call into ig.state or the module manager before they reply
mayFail(commandName) == commandName \in {"status", "help", "commands"}

\* CoreModule.handlePing
handlePing(m) == Did(<<reply(m, "pong")>>, {"ping"}, FALSE)

\* a variant of the callback handlePing defers, one that sends its reply
pingLaterReplies(m) == Did(<<reply(m, "responseTime")>>, {}, FALSE)

\* the callback handlePing defers: evaluating this.instagramBot.isRealtimeConnected()
\* throws (the bot has a boolean field of that name, no method) before the reply
pingLater(m) == Threw

\* CoreModule.handleStatus, HelpModule.handleHelp, HelpModule.handleCommands:
\* one reply
handleReplying(m, kind, fails) == IF fails THEN Threw ELSE Did(<<reply(m, kind)>>, {}, FALSE)

\* a variant of handleReact that also confirms in text
handleReactConfirms(m, args) ==
    Did(<<Op("sendReaction", m, IF Len(args) > 0 /\ args[1] # "" THEN args[1] ELSE "heart", <<>>),
          reply(m, "reacted")>>, {}, FALSE)

\* CoreModule.handleReact: args[0] || heart
handleReact(m, args) ==
    Did(<<Op("sendReaction", m, IF Len(args) > 0 /\ args[1] # "" THEN args[1] ELSE "heart", <<>>)>>,
        {}, FALSE)

\* CoreModule.handleTyping
handleTyping(m) ==
    Did(<<Op("indicateTyping", m, "on", <<>>), reply(m, "typingFor")>>, {"typing"}, FALSE)

\* the callback handleTyping defers
typingLater(m) ==
    Did(<<Op("indicateTyping", m, "off", <<>>), reply(m, "doneTyping")>>, {}, FALSE)

\* command.handler(args, commandContext); the copy in realtime-bot.js passes
\* the bare message, on which reply, react and typing are not functions
handler(cfg, commandName, args, m, fails) ==
    IF cfg.variant = "realtime" THEN Threw
    ELSE CASE commandName = "ping" -> handlePing(m)
           [] commandName = "react" -> handleReact(m, args)
           [] commandName = "typing" -> handleTyping(m)
           [] OTHER -> handleReplying(m, commandName, fails)

\* a variant of the try/catch around the handler that lets the error go
caughtSilently(m) == <<>>

\* the catch around the handler: one reply with the error's message
caught(m) == <<reply(m, "error")>>

\* which way handleCommand goes
outcomeOf(cfg, m, fails) ==
    LET p == parse(m.text)
    IN  IF ~hasCommand(p.commandName) THEN "unknown"
        ELSE IF Commands[p.commandName].adminOnly /\ ~isAdmin(cfg, m.senderUsername)
             THEN "denied"
        ELSE IF cfg.variant = "config" /\ isRateLimited(m.senderUsername, p.commandName)
             THEN "limited"
        ELSE IF handler(cfg, p.commandName, p.args, m, fails).threw THEN "error"
        ELSE "ok"

\* handleCommand(message): the calls it makes and the callbacks it leaves
handleCommand(cfg, m, fails) ==
    LET p == parse(m.text)
        h == handler(cfg, p.commandName, p.args, m, fails)
        way == outcomeOf(cfg, m, fails)
    IN  CASE way = "unknown" ->
               Did(IF cfg.variant = "config" /\ cfg.respondToUnknownCommands
                   THEN <<reply(m, "unknown")>> ELSE <<>>, {}, FALSE)
          [] way = "denied" -> Did(<<reply(m, "denied")>>, {}, FALSE)
          [] way = "limited" -> Did(<<reply(m, "wait")>>, {}, FALSE)
          [] OTHER ->
               Did(<<Op("handler", m, p.commandName, p.args)>> \o h.ops
                     \o (IF h.threw THEN caught(m) ELSE <<>>),
                   h.deferred, FALSE)

\* a variant that stops the typing indicator only after a handler ran through
afterCommandOnSuccess(cfg, m, way) ==
    IF cfg.variant = "config" /\ way = "ok"
    THEN <<Op("indicateTyping", m, "off", <<>>)>> ELSE <<>>

\* the finally of handleMessage (config.js copy): stop the typing indicator
afterCommand(cfg, m, way) ==
    IF cfg.variant = "config" THEN <<Op("indicateTyping", m, "off", <<>>)>> ELSE <<>>

\* the (sender, command) pair whose executions are counted
Observed(m) == m.senderUsername = "bob" /\ parse(m.text).commandName = "ping"

\* a bot that is connected, with any configuration and either copy of the
\* message handler, and no message in hand
DispatchInit ==
    /\ Running
    /\ PushMode(1)
    /\ telegramBridge \in BOOLEAN
    /\ lastMessageCheck = 0
    /\ InboundIdle
    /\ config \in {Config(v, seen, unknown, admins) :
                     v \in {"config", "realtime"}, seen \in BOOLEAN,
                     unknown \in BOOLEAN, admins \in AdminEnv}
    /\ DispatchIdle
    /\ now = 0
    /\ limit = [maxRequests |-> maxRequests, windowMs |-> windowMs]
    /\ LimiterIdle
    /\ SendIdle

\* handleMessage(message) is called: the config.js copy marks the message as
\* seen when configured, then both hand the message to the modules
HandleMessage(m) ==
    /\ cur = Idle
    /\ cur' = IF config.variant = "config" /\ config.markAsSeen
              THEN [pc |-> "seen", msg |-> m, way |-> "none", deferred |-> {},
                    trace |-> <<Op("markAsSeen", m, "seen", <<>>)>>]
              ELSE [pc |-> "process", msg |-> m, way |-> "none", deferred |-> {},
                    trace |-> <<>>]
    /\ UNCHANGED <<config, executed, unhandled>>
    /\ UNCHANGED <<connVars, inboundVars, limiterVars, sendVars>>

\* markAsSeen returned
MarkedSeen ==
    /\ cur.pc = "seen"
    /\ cur' = [cur EXCEPT !.pc = "process"]
    /\ UNCHANGED <<config, executed, unhandled>>
    /\ UNCHANGED <<connVars, inboundVars, limiterVars, sendVars>>

\* moduleManager.processMessage settled: a throw ends in handleMessage's
\* catch; a command goes to handleCommand, in the config.js copy after the
\* typing indicator is turned on
Processed(ok) ==
    /\ cur.pc = "process"
    /\ cur' = IF ~ok THEN [cur EXCEPT !.pc = "done", !.way = "failed"]
              ELSE IF ~startsWith(cur.msg.text, ".") THEN [cur EXCEPT !.pc = "other"]
              ELSE IF config.variant = "config"
                   THEN [cur EXCEPT !.pc = "command",
                                    !.trace = Append(@, Op("indicateTyping", cur.msg, "on", <<>>))]
              ELSE [cur EXCEPT !.pc = "command"]
    /\ UNCHANGED <<config, executed, unhandled>>
    /\ UNCHANGED <<connVars, inboundVars, limiterVars, sendVars>>

\* handleCommand runs; fails: the handler throws before it replies
Command(fails) ==
    LET c == handleCommand(config, cur.msg, fails)
        way == outcomeOf(config, cur.msg, fails)
    IN  /\ cur.pc = "command"
        /\ fails => /\ config.variant = "config"
                    /\ outcomeOf(config, cur.msg, FALSE) = "ok"
                    /\ mayFail(parse(cur.msg.text).commandName)
        /\ cur' = [cur EXCEPT !.pc = "finally", !.way = way,
                              !.trace = @ \o c.ops, !.deferred = c.deferred]
        /\ executed' = IF way \in {"ok", "error"} /\ Observed(cur.msg)
                       THEN Min(executed + 1, maxRequests + 1) ELSE executed
        /\ UNCHANGED <<config, unhandled>>
        /\ UNCHANGED <<connVars, inboundVars, limiterVars, sendVars>>

\* handleCommand returned: the finally, and handleMessage returns
Finally ==
    /\ cur.pc = "finally"
    /\ cur' = [cur EXCEPT !.pc = "done",
                          !.trace = @ \o afterCommand(config, cur.msg, cur.way)]
    /\ UNCHANGED <<config, executed, unhandled>>
    /\ UNCHANGED <<connVars, inboundVars, limiterVars, sendVars>>

\* a message that is no command: forwarded to Telegram when there is a bridge
NotCommand ==
    /\ cur.pc = "other"
    /\ cur' = [cur EXCEPT !.pc = "done", !.way = "other",
                          !.trace = IF telegramBridge
                                    THEN Append(@, Op("forwardMessage", cur.msg, "telegram", <<>>))
                                    ELSE @]
    /\ UNCHANGED <<config, executed, unhandled>>
    /\ UNCHANGED <<connVars, inboundVars, limiterVars, sendVars>>

\* what a deferred callback does
later(k, m) == IF k = "ping" THEN pingLater(m) ELSE typingLater(m)

\* process.on('unhandledRejection'): shutdown is called, unless one is under way
rejectionShutsDown(threw) == threw /\ phase = "running"

\* a setTimeout callback left by a handler runs; nothing catches its throw:
\* the promise of the async callback rejects unhandled, the process's
\* 'unhandledRejection' listener calls shutdown, and that calls disconnect()
\* (shutdown goes on as in DisconnectClosed, DisconnectSaved and Exit, and
\* ends in process.exit whichever way disconnect goes)
DeferredFires(k) ==
    LET d == later(k, cur.msg)
        fatal == rejectionShutsDown(d.threw)
    IN  /\ cur # Idle /\ k \in cur.deferred
        /\ cur' = [cur EXCEPT !.deferred = @ \ {k}, !.trace = @ \o d.ops]
        /\ unhandled' = (unhandled \/ d.threw)
        /\ Set(IF fatal THEN disconnectBegin(World) ELSE World)
        /\ phase' = IF fatal THEN "closing" ELSE phase
        /\ last' = IF fatal THEN [op |-> "Disconnect", info |-> "unhandledRejection"] ELSE last
        /\ UNCHANGED <<calls, ticks, listeners, channelOpen, pendingHR, telegramBridge,
                       errorsInRow>>
        /\ UNCHANGED <<config, executed>>
        /\ UNCHANGED <<inboundVars, limiterVars, sendVars>>

\* the message is through, with all it deferred
Through ==
    /\ cur.pc = "done" /\ cur.deferred = {}
    /\ cur' = Idle
    /\ UNCHANGED <<config, executed, unhandled>>
    /\ UNCHANGED <<connVars, inboundVars, limiterVars, sendVars>>

DispatchNext ==
    \/ \E m \in Messages : HandleMessage(m)
    \/ MarkedSeen
    \/ \E ok \in BOOLEAN : Processed(ok)
    \/ \E fails \in BOOLEAN : Command(fails)
    \/ Finally
    \/ NotCommand
    \/ \E k \in {"ping", "typing"} : DeferredFires(k)
    \/ Through

DispatchSpec == DispatchInit /\ [][DispatchNext]_vars

----------------------------------------------------------------------------
(* RateLimiter (src/unnamed/part_003) *)

\* this.requests.get(key) once the key is there: [] for a new key
stored(reqs, key) == IF key \in DOMAIN reqs THEN reqs[key] ELSE <<>>

\* userRequests.filter(time => time > windowStart)
validRequests(userRequests, windowStart) ==
    SelectSeq(userRequests, LAMBDA time : time > windowStart)

\* the map after this.requests.set(key, list)
mapSet(reqs, key, list) ==
    [k \in DOMAIN reqs \cup {key} |-> IF k = key THEN list ELSE reqs[k]]

\* a variant that admits one request more than maxRequests
isLimitedOffByOne(reqs, key, max, window, t) ==
    LET valid == validRequests(stored(reqs, key), t - window)
    IN  IF Len(valid) > max
        THEN [limited |-> TRUE, requests |-> mapSet(reqs, key, valid)]
        ELSE [limited |-> FALSE, requests |-> mapSet(reqs, key, Append(valid, t))]

\* isLimited(key, maxRequests, windowMs) called at time t: its result and the
\* map it leaves
isLimited(reqs, key, max, window, t) ==
    LET valid == validRequests(stored(reqs, key), t - window)
    IN  IF Len(valid) >= max
        THEN [limited |-> TRUE, requests |-> mapSet(reqs, key, valid)]
        ELSE [limited |-> FALSE, requests |-> mapSet(reqs, key, Append(valid, t))]

\* the bot constructed and not started: the connection state of Init
Constructed ==
    /\ bot = [isRealtimeConnected |-> FALSE, isPolling |-> FALSE,
              reconnectAttempts |-> 0, pollingInterval |-> NoHandle]
    /\ timers = [intervals |-> {}, retries |-> EmptyBag, cooldowns |-> 0]
    /\ calls = EmptyBag
    /\ ticks = EmptyBag
    /\ listeners = 0
    /\ channelOpen = FALSE
    /\ pendingHR = 0
    /\ phase = "constructed"
    /\ telegramBridge = FALSE
    /\ last = [op |-> "new", info |-> "none"]
    /\ errorsInRow = 0

\* a rate limiter whose callers pass one maxRequests and one windowMs
LimiterInit ==
    /\ Constructed
    /\ lastMessageCheck = 0
    /\ InboundIdle
    /\ config = DefaultConfig
    /\ DispatchIdle
    /\ now = 0
    /\ limit \in [maxRequests : 1..MaxRequests, windowMs : 1..MaxWindow]
    /\ LimiterIdle
    /\ SendIdle

\* a millisecond passes
ClockTick ==
    /\ now < MaxTime
    /\ now' = now + 1
    /\ UNCHANGED <<requests, limit, accepted, lastCall>>
    /\ UNCHANGED <<connVars, inboundVars, dispatchVars, sendVars>>

\* a call isLimited(key, limit.maxRequests, limit.windowMs)
IsLimited(key) ==
    LET r == isLimited(requests, key, limit.maxRequests, limit.windowMs, now)
    IN  /\ requests' = r.requests
        /\ accepted' = IF r.limited THEN accepted
                       ELSE [accepted EXCEPT ![key] = Append(@, now)]
        /\ lastCall' = [key |-> key, limited |-> r.limited, flip |-> ~lastCall.flip]
        /\ UNCHANGED <<now, limit>>
        /\ UNCHANGED <<connVars, inboundVars, dispatchVars, sendVars>>

\* clear(key): the key's history is dropped
Clear(key) ==
    /\ key \in DOMAIN requests
    /\ requests' = [k \in DOMAIN requests \ {key} |-> requests[k]]
    /\ accepted' = [accepted EXCEPT ![key] = <<>>]
    /\ UNCHANGED <<now, limit, lastCall>>
    /\ UNCHANGED <<connVars, inboundVars, dispatchVars, sendVars>>

\* clearAll()
ClearAll ==
    /\ DOMAIN requests # {}
    /\ requests' = [k \in {} |-> <<>>]
    /\ accepted' = [k \in Keys |-> <<>>]
    /\ UNCHANGED <<now, limit, lastCall>>
    /\ UNCHANGED <<connVars, inboundVars, dispatchVars, sendVars>>

LimiterNext ==
    \/ ClockTick
    \/ \E key \in Keys : IsLimited(key)
    \/ \E key \in Keys : Clear(key)
    \/ ClearAll

LimiterSpec == LimiterInit /\ [][LimiterNext]_vars

----------------------------------------------------------------------------
(* The outbound operations of InstagramRealtimeBot: sendMessage,             *)
(* sendReaction, markAsSeen and indicateTyping                               *)

SendOps == {"sendMessage", "sendReaction", "markAsSeen", "indicateTyping"}

\* the connection state as getStats() shows it
stateOf(b) ==
    IF b.isRealtimeConnected /\ ~b.isPolling THEN "PushConnected"
    ELSE IF b.isPolling /\ ~b.isRealtimeConnected THEN "Polling"
    ELSE IF b.isPolling THEN "Both"
    ELSE "Disconnected"

\* this.ig.realtime && this.isRealtimeConnected (ig.realtime is there from the
\* constructor on)
usesRealtime(b) == b.isRealtimeConnected

\* the request an operation issues: over the push client when connected; else
\* sendMessage alone has a branch for the direct API (broadcastText), the
\* other three issue nothing
requestOf(op, b) ==
    IF usesRealtime(b) THEN "push"
    ELSE IF op = "sendMessage" THEN "direct"
    ELSE "none"

\* a variant whose catch rethrows
sendResultRethrows(ok) == IF ok THEN "true" ELSE "threw"

\* what an operation returns: true after the try block, false from its catch
sendResult(ok) == IF ok THEN "true" ELSE "false"

\* the bot waiting for a retry after the first connect failed
BackoffMode ==
    /\ bot = [isRealtimeConnected |-> FALSE, isPolling |-> FALSE,
              reconnectAttempts |-> 1, pollingInterval |-> NoHandle]
    /\ timers = [intervals |-> {}, retries |-> One([attempt |-> 1, delay |-> reconnectDelay(1)]),
                 cooldowns |-> 0]
    /\ listeners = 1
    /\ channelOpen = FALSE

\* a running bot in any of its connection states, nothing sent yet
SendInit ==
    /\ Running
    /\ telegramBridge = FALSE
    /\ PollMode \/ BackoffMode \/ \E n \in {1, 2} : PushMode(n)
    /\ lastMessageCheck = 0
    /\ InboundIdle
    /\ config = DefaultConfig
    /\ DispatchIdle
    /\ now = 0
    /\ limit = [maxRequests |-> maxRequests, windowMs |-> windowMs]
    /\ LimiterIdle
    /\ SendIdle

\* an operation is called: it picks its channel by the flag and awaits the
\* request; with nothing to request it returns true at once
SendCalled(op) ==
    LET s == [op |-> op, state |-> stateOf(bot), via |-> requestOf(op, bot),
              outcome |-> "none", result |-> "none"]
    IN  /\ Alive
        /\ s.via # "none" => BagCardinality(outbox) < MaxSends
        /\ outbox' = IF s.via = "none" THEN outbox ELSE outbox (+) One(s)
        /\ sent' = IF s.via = "none" THEN [s EXCEPT !.result = sendResult(TRUE)] ELSE sent
        /\ UNCHANGED <<connVars, inboundVars, dispatchVars, limiterVars>>

\* the request of an operation settled (ok: it did not throw); the operation
\* returns
SendSettled(s, ok) ==
    /\ Alive /\ BagIn(s, outbox)
    /\ outbox' = outbox (-) One(s)
    /\ sent' = [s EXCEPT !.outcome = IF ok THEN "ok" ELSE "failed",
                         !.result = sendResult(ok)]
    /\ UNCHANGED <<connVars, inboundVars, dispatchVars, limiterVars>>

\* the operations, and the push client's events that change the flag they read
SendNext ==
    \/ \E op \in SendOps : SendCalled(op)
    \/ \E s \in BagToSet(outbox), ok \in BOOLEAN : SendSettled(s, ok)
    \/ PushError
    \/ PushDisconnect
    \/ HandleReconnection

SendSpec == SendInit /\ [][SendNext]_vars

----------------------------------------------------------------------------
(* The connection lifecycle when the inbox can be read but the push channel  *)
(* never opens, and no signal arrives                                        *)

\* with no channel ever open reconnectAttempts is never reset, so the retries
\* and the listener sets they stack are bounded by maxReconnectAttempts
PushFailsNext ==
    \/ Initialize
    \/ \E c \in BagToSet(calls) : ConnectInboxOk(c)
    \/ \E c \in BagToSet(calls) : ConnectFails(c)
    \/ HandleReconnection
    \/ \E t \in BagToSet(timers.retries) : RetryTimerFires(t)
    \/ \E h \in timers.intervals : PollTick(h)
    \/ TickCheckDone
    \/ \E sigs \in SUBSET Signatures : TickCheckFails(sigs)
    \/ \E ok \in BOOLEAN : TickLoginDone(ok)
    \/ CooldownFires

\* the event loop runs every callback that is due: a request settles, a timer
\* fires, the handleReconnection calls of a callback are made
PushFailsFair ==
    /\ WF_vars(Initialize)
    /\ WF_vars(\E c \in BagToSet(calls) : ConnectInboxOk(c))
    /\ WF_vars(\E c \in BagToSet(calls) : ConnectFails(c))
    /\ WF_vars(HandleReconnection)
    /\ WF_vars(\E t \in BagToSet(timers.retries) : RetryTimerFires(t))

PushFailsSpec == Init /\ [][PushFailsNext]_vars /\ PushFailsFair

----------------------------------------------------------------------------
(* Claims about the connection lifecycle *)

Disconnected == ~bot.isRealtimeConnected /\ ~bot.isPolling
PushConnected == bot.isRealtimeConnected /\ ~bot.isPolling
RetriesPending == BagCardinality(timers.retries)
DisconnectNotCalled == phase \in {"startup", "running"}

\* C1: the push-connected flag and the polling flag are never both true.
C1_PushAndPollExclusive == ~(bot.isRealtimeConnected /\ bot.isPolling)

\* C2: once isPolling is set, no retry timer starts connectRealtime and
\* isRealtimeConnected does not become true, as long as polling mode lasts.
C2_PollingIsTerminal ==
    [][bot.isPolling =>
          /\ last'.op # "RetryTimerFires"
          /\ (bot'.isRealtimeConnected => bot.isRealtimeConnected)]_vars

\* C3: Scenario D. After 3 consecutive 'error' events from a clean PushConnected
\* state (their listeners run to the end), the state is Polling with
\* reconnectAttempts = 3 and no connect attempt is pending or in flight.
C3_ScenarioD ==
    (errorsInRow = maxReconnectAttempts /\ pendingHR = 0) =>
        /\ bot.isPolling /\ ~bot.isRealtimeConnected
        /\ bot.reconnectAttempts = maxReconnectAttempts
        /\ timers.retries = EmptyBag /\ calls = EmptyBag

\* C4: reconnectAttempts never exceeds maxReconnectAttempts; a step schedules a
\* retry exactly when it raises the counter, and then by exactly 1; the counter
\* only goes down by the reset to 0 of a successful push connect.
C4_AttemptsCounted ==
    /\ [](bot.reconnectAttempts \in 0..maxReconnectAttempts)
    /\ [][/\ (BagCardinality(timers'.retries) > RetriesPending) =>
                /\ last'.op = "HandleReconnection"
                /\ BagCardinality(timers'.retries) = RetriesPending + 1
                /\ bot'.reconnectAttempts = bot.reconnectAttempts + 1
          /\ (bot'.reconnectAttempts > bot.reconnectAttempts) =>
                /\ last'.op = "HandleReconnection"
                /\ BagCardinality(timers'.retries) = RetriesPending + 1
                /\ bot'.reconnectAttempts = bot.reconnectAttempts + 1
          /\ (bot'.reconnectAttempts < bot.reconnectAttempts) =>
                /\ last'.op = "ConnectOpens"
                /\ bot'.reconnectAttempts = 0
                /\ bot'.isRealtimeConnected]_vars

C4_Witness ==
    /\ last.op = "HandleReconnection" /\ last.info = "retry"
    /\ bot.reconnectAttempts = maxReconnectAttempts
    /\ RetriesPending = maxReconnectAttempts

\* C5: every scheduled retry of attempt n waits min(4000 * 2^n, 60000) ms; the
\* delays do not decrease with n and never exceed the cap.
C5_BackoffDelay ==
    /\ \A t \in BagToSet(timers.retries) :
          /\ t.attempt \in 1..maxReconnectAttempts
          /\ t.delay <= 60000
          /\ \/ t.delay = 4000 * 2^(t.attempt)
             \/ t.delay = 60000 /\ 4000 * 2^(t.attempt) > 60000
    /\ \A t, u \in BagToSet(timers.retries) :
          t.attempt <= u.attempt => t.delay <= u.delay

C5_Witness ==
    /\ [attempt |-> 1, delay |-> 8000] \in BagToSet(timers.retries)
    /\ [attempt |-> 2, delay |-> 16000] \in BagToSet(timers.retries)
    /\ [attempt |-> 3, delay |-> 32000] \in BagToSet(timers.retries)

\* C6: Scenario A. When the connectRealtime called by initialize ends with the
\* inbox fetched and the channel opened, the state is PushConnected with
\* reconnectAttempts = 0, and no polling timer, retry timer or cooldown exists.
C6_ScenarioA ==
    (last.op = "ConnectOpens" /\ last.info = "initialize") =>
        /\ PushConnected
        /\ bot.reconnectAttempts = 0
        /\ bot.pollingInterval = NoHandle /\ timers.intervals = {}
        /\ timers.retries = EmptyBag /\ timers.cooldowns = 0
        /\ calls = EmptyBag /\ pendingHR = 0
        /\ phase = "running"

C6_Witness ==
    /\ last.op = "ConnectOpens" /\ last.info = "initialize"
    /\ bot.isRealtimeConnected /\ channelOpen /\ listeners = 1

\* C7: Scenario B. When the inbox fetch of a connectRealtime throws while the
\* manager is not polling, that call opens no push channel and schedules no
\* reconnection: it returns with isPolling true, isRealtimeConnected false,
\* reconnectAttempts unchanged and the polling interval timer armed.
C7_ScenarioB ==
    [][(last'.op = "ConnectInboxFails" /\ ~bot.isPolling) =>
          /\ bot'.isPolling /\ ~bot'.isRealtimeConnected
          /\ bot'.reconnectAttempts = bot.reconnectAttempts
          /\ bot'.pollingInterval \in timers'.intervals
          /\ bot'.pollingInterval \notin timers.intervals
          /\ timers'.retries = timers.retries
          /\ pendingHR' = 0
          /\ listeners' = listeners /\ channelOpen' = channelOpen
          /\ BagCardinality(calls') = BagCardinality(calls) - 1]_vars

C7_Witness ==
    /\ last.op = "ConnectInboxFails" /\ last.info = "initialize"
    /\ bot.isPolling /\ ~bot.isRealtimeConnected
    /\ timers.intervals = {bot.pollingInterval}
    /\ listeners = 0

\* C8: startFallbackPolling called while isPolling is true changes no field and
\* no interval timer, and at most one polling interval timer is ever active.
C8_PollingIdempotent ==
    /\ [](Cardinality(timers.intervals) <= 1)
    /\ [][(/\ bot.isPolling
           /\ \/ last'.op = "ConnectInboxFails"
              \/ last'.op = "CooldownFires"
              \/ last'.op = "HandleReconnection" /\ last'.info = "giveup") =>
             /\ bot' = bot
             /\ timers'.intervals = timers.intervals
             /\ timers'.retries = timers.retries]_vars

C8_Witness ==
    /\ last.op = "CooldownFires" /\ last.info = "polling"
    /\ phase \in {"closing", "saving", "returned"}
    /\ bot.isPolling /\ Cardinality(timers.intervals) = 1

C10_ReloginContained ==
    [][/\ (last'.op = "TickCheckFails" /\ last'.info = "login") =>
             /\ bot' = bot /\ timers' = timers /\ phase' = phase
             /\ CopiesIn("login", ticks') = CopiesIn("login", ticks) + 1
             /\ CopiesIn("check", ticks') = CopiesIn("check", ticks) - 1
       /\ (last'.op = "TickLoginDone") =>
             /\ bot' = bot /\ timers' = timers /\ phase' = phase
             /\ CopiesIn("login", ticks') = CopiesIn("login", ticks) - 1
             /\ CopiesIn("check", ticks') = CopiesIn("check", ticks)]_vars

C10_Witness ==
    /\ last.op = "TickLoginDone" /\ last.info = "threw"
    /\ bot.isPolling /\ bot.pollingInterval \in timers.intervals
    /\ phase = "running"

\* C11: polling hands a message to handleMessage at most once, however many
\* ticks observe it as the newest of its conversation, and lastMessageCheck
\* changes only to the time of an examined message strictly newer than it
C11_PollingDedup ==
    /\ [](\A e \in BagToSet(handed) : e.via = "poll" => CopiesIn(e, handed) = 1)
    /\ [][lastMessageCheck' # lastMessageCheck =>
            /\ lastMessageCheck' > lastMessageCheck
            /\ \E t \in Threads : /\ threadLatest[t] # NoMessage
                                  /\ lastMessageCheck' = messageTime(threadLatest[t])]_vars

\* a later tick has examined a message that an earlier tick handed over, and
\* found it not new
C11_Witness ==
    \E r \in BagToSet(pollRuns) :
        /\ r.pc = "delay" /\ r.msg # NoMessage /\ ~r.fresh
        /\ BagIn(Handed("poll", r.msg), handed)

\* C12: a message sent by the bot's own account is never passed to
\* handleMessage, neither by the push listener nor by a polling tick
C12_OwnMessagesSkipped ==
    \A e \in BagToSet(handed) : toString(e.sender) # cookieUserId

\* a tick has examined an own message newer than the watermark and dropped it
C12_Witness ==
    \E r \in BagToSet(pollRuns) :
        r.pc = "delay" /\ r.fresh /\ isOwnMessage(r.msg)

\* how many of the times in seq lie in the interval from lo to hi; the lower
\* end counts when closed
CountIn(seq, lo, hi, closed) ==
    Cardinality({i \in DOMAIN seq :
                    /\ seq[i] <= hi
                    /\ IF closed THEN seq[i] >= lo ELSE seq[i] > lo})

\* C16 as stated: for every key, in every time interval of length windowMs
\* (its two ends included) at most maxRequests calls returned false
C16_AtMostNPerInterval ==
    \A k \in Keys, t \in 0..MaxTime :
        CountIn(accepted[k], t - limit.windowMs, t, TRUE) <= limit.maxRequests

\* C16 amended: a call returns true and stores no timestamp (it only purges)
\* when maxRequests timestamps newer than now - windowMs are stored for its
\* key, and otherwise stores now and returns false; the timestamps of the
\* other keys stay as they are; so for every key at most maxRequests calls
\* return false in any interval (t - windowMs, t], which leaves out its older end
C16_SlidingWindow ==
    /\ [](\A k \in Keys, t \in 0..MaxTime :
            CountIn(accepted[k], t - limit.windowMs, t, FALSE) <= limit.maxRequests)
    /\ [][lastCall' # lastCall =>
            LET k == lastCall'.key
                old == stored(requests, k)
                fresh == {i \in DOMAIN old : old[i] > now - limit.windowMs}
                new == stored(requests', k)
            IN  /\ lastCall'.limited = (Cardinality(fresh) >= limit.maxRequests)
                /\ Len(new) = Cardinality(fresh) + (IF lastCall'.limited THEN 0 ELSE 1)
                /\ \A i \in DOMAIN new : new[i] > now - limit.windowMs
                /\ lastCall'.limited => \A i \in DOMAIN new : \E j \in fresh : old[j] = new[i]
                /\ ~lastCall'.limited => new[Len(new)] = now
                /\ \A j \in Keys \ {k} : stored(requests', j) = stored(requests, j)]_vars

\* a call returned true for a key that is at capacity while the other key was
\* admitted at the same time
C16_Witness ==
    /\ lastCall.limited
    /\ Len(stored(requests, lastCall.key)) = limit.maxRequests
    /\ \E j \in Keys \ {lastCall.key} :
         Len(accepted[j]) > 0 /\ accepted[j][Len(accepted[j])] = now

\* the calls of one kind in a trace
Calls(trace, op) == SelectSeq(trace, LAMBDA o : o.op = op)

\* handleCommand has run for the message in hand
Commanded ==
    /\ cur # Idle /\ cur.pc \in {"finally", "done"}
    /\ cur.way \in {"unknown", "denied", "limited", "ok", "error"}

\* the message in hand is a command whose handleMessage call has returned
CommandDone ==
    cur # Idle /\ cur.pc = "done" /\ cur.way \in {"unknown", "denied", "limited", "ok", "error"}

\* C13: for a command whose name is not in the registry handleCommand invokes
\* no handler and sends exactly one "unknown command" reply to the message's
\* thread when respondToUnknownCommands is set, and no reply when it is not
C13_UnknownCommand ==
    (Commanded /\ cur.way = "unknown") =>
        /\ Calls(cur.trace, "handler") = <<>>
        /\ Calls(cur.trace, "sendMessage") =
             IF config.respondToUnknownCommands THEN <<reply(cur.msg, "unknown")>> ELSE <<>>

\* C14: for an adminOnly command, a sender whose lower-cased handle is not
\* in config.admin.users gets exactly one denial reply and the handler is not
\* called; a sender whose lower-cased handle is in it gets the handler
C14_AdminGate ==
    (Commanded /\ hasCommand(parse(cur.msg.text).commandName)
               /\ Commands[parse(cur.msg.text).commandName].adminOnly) =>
        IF toLowerCase(cur.msg.senderUsername) \in config.adminUsers
        THEN Len(Calls(cur.trace, "handler")) = 1
        ELSE /\ Calls(cur.trace, "handler") = <<>>
             /\ Calls(cur.trace, "sendMessage") = <<reply(cur.msg, "denied")>>

\* a sender spelled with a capital was denied an adminOnly command
C14_Witness ==
    /\ Commanded /\ cur.way = "denied" /\ cur.msg.senderUsername = "Alice"
    /\ Calls(cur.trace, "sendMessage") = <<reply(cur.msg, "denied")>>

\* C15: within one window the handler is invoked at most maxRequests times
\* for one (sender, command) pair; the next command message of the pair gets
\* the "please wait" reply instead
C15_RateLimited == executed <= maxRequests

\* C17: in the config.js copy every command message has the typing indicator
\* turned on before handleCommand does anything and turned off after all it
\* did, whichever way handleCommand went
C17_TypingAround ==
    config.variant = "config" =>
        /\ (cur # Idle /\ cur.pc = "command") =>
              cur.trace[Len(cur.trace)] = Op("indicateTyping", cur.msg, "on", <<>>)
        /\ CommandDone =>
              \E i, j \in DOMAIN cur.trace :
                 /\ i < j
                 /\ cur.trace[i] = Op("indicateTyping", cur.msg, "on", <<>>)
                 /\ cur.trace[j] = Op("indicateTyping", cur.msg, "off", <<>>)
                 /\ \A k \in DOMAIN cur.trace :
                       (\/ cur.trace[k].op \in {"handler", "sendReaction"}
                        \/ cur.trace[k].op = "sendMessage" /\ cur.trace[k].arg # "doneTyping")
                       => i < k /\ k < j

\* handleMessage has returned for a command whose handler threw, indicator off
C17_Witness ==
    /\ config.variant = "config" /\ CommandDone /\ cur.way = "error"
    /\ cur.trace[Len(cur.trace)] = Op("indicateTyping", cur.msg, "off", <<>>)

\* C18: when the handler throws, handleCommand catches it and sends exactly
\* one error reply to the message's thread, handleMessage goes on to return,
\* and the bot's connection state stays as it was
C18_HandlerErrorContained ==
    /\ []((cur # Idle /\ cur.way = "error") =>
            /\ cur.pc \in {"finally", "done"}
            /\ Calls(cur.trace, "sendMessage") = <<reply(cur.msg, "error")>>)
    /\ [][(cur' # Idle /\ cur'.way = "error") =>
            UNCHANGED <<bot, timers, listeners, channelOpen, phase>>]_vars

\* handleMessage has returned after a handler of the config.js copy threw
C18_Witness ==
    /\ cur # Idle /\ cur.way = "error" /\ cur.pc = "done"
    /\ config.variant = "config"
    /\ Len(Calls(cur.trace, "handler")) = 1

\* C19: ".ping" from a sender who is no admin (config.js copy), once the
\* modules passed it on: the ping
\* handler is invoked once, the typing indicator goes on once and then off
\* once, and one reply is sent in all, the deferred callback included
C19_ScenarioC ==
    (/\ config.variant = "config" /\ cur # Idle
     /\ cur.msg.text = <<".", "ping">>
     /\ toLowerCase(cur.msg.senderUsername) \notin config.adminUsers) =>
        /\ Len(Calls(cur.trace, "sendMessage")) <= 1
        /\ CommandDone =>
              /\ Calls(cur.trace, "handler") = <<Op("handler", cur.msg, "ping", <<>>)>>
              /\ Calls(cur.trace, "indicateTyping") =
                   <<Op("indicateTyping", cur.msg, "on", <<>>),
                     Op("indicateTyping", cur.msg, "off", <<>>)>>
              /\ Calls(cur.trace, "sendMessage") = <<reply(cur.msg, "pong")>>

\* ".ping" from bob is through and the callback its handler deferred has run
C19_Witness ==
    /\ config.variant = "config" /\ cur # Idle /\ cur.pc = "done"
    /\ cur.msg.text = <<".", "ping">> /\ cur.msg.senderUsername = "bob"
    /\ cur.deferred = {} /\ unhandled
    /\ Len(Calls(cur.trace, "sendMessage")) = 1

\* C20: ".react fire" (config.js copy): the react handler is invoked once with
\* args = <<"fire">>, sendReaction is called once with the message's
\* threadId and id and "fire", and no text is sent
C20_ScenarioE ==
    (/\ config.variant = "config" /\ Commanded
     /\ cur.msg.text = <<".", "react", " ", "fire">>) =>
        /\ Calls(cur.trace, "handler") = <<Op("handler", cur.msg, "react", <<"fire">>)>>
        /\ Calls(cur.trace, "sendReaction") =
             <<[op |-> "sendReaction", threadId |-> cur.msg.threadId,
                id |-> cur.msg.id, arg |-> "fire", args |-> <<>>]>>
        /\ Calls(cur.trace, "sendMessage") = <<>>

\* ".react fire" on item 12 of conversation 2 is through
C20_Witness ==
    /\ config.variant = "config" /\ cur # Idle /\ cur.pc = "done"
    /\ cur.msg.text = <<".", "react", " ", "fire">>
    /\ cur.msg.threadId = 2 /\ cur.msg.id = 12
    /\ Len(Calls(cur.trace, "sendReaction")) = 1

\* every send operation called so far, awaiting its request or returned
Sends == BagToSet(outbox) \cup ({sent} \ {NoSend})

\* C21: each send operation issues its request over the push channel when the
\* state is PushConnected and over the direct API otherwise: a call made in
\* Polling or Disconnected issues one direct request
C21_SendChannel ==
    \A s \in Sends :
        s.via = IF s.state = "PushConnected" THEN "push" ELSE "direct"

\* C22: no send operation throws: it returns true when its request went
\* through (or there was none to make) and false when the request threw; and
\* a step of a send operation leaves the bot's fields, its timers and the
\* reconnection work as they are
C22_SendsNeverThrow ==
    /\ [](sent # NoSend =>
            sent.result = IF sent.outcome = "failed" THEN "false" ELSE "true")
    /\ [][(sent' # sent \/ outbox' # outbox) =>
            UNCHANGED <<bot, timers, calls, pendingHR, listeners, phase>>]_vars

\* a request made over the push channel failed after the connection was lost,
\* and the operation returned false
C22_Witness ==
    /\ sent.via = "push" /\ sent.outcome = "failed" /\ sent.result = "false"
    /\ ~bot.isRealtimeConnected /\ RetriesPending > 0

\* disconnect() has been called and has returned
DisconnectReturned == phase \in {"returned", "exited"}

\* C23: once disconnect() has returned, no polling tick begins: no interval
\* callback calls checkForNewMessages, whatever timer was pending when
\* disconnect() was called
C23_NoTickAfterDisconnect ==
    [][DisconnectReturned => ~(last'.op = "PollTick" /\ last'.info = "check")]_vars

\* C24: disconnect() does not return before saveCookiesToDb was called, also
\* when ig.realtime.disconnect() throws
C24_AlwaysSaves ==
    [][(~DisconnectReturned /\ DisconnectReturned') => phase = "saving"]_vars

\* the calls of telegramBridge.forwardMessage made for the message in hand
Forwarded == IF cur = Idle THEN <<>> ELSE Calls(cur.trace, "forwardMessage")

\* C25: forwardMessage is called only for a message whose text does not begin
\* with the trigger character, and only when the bridge is enabled; a message
\* that begins with the trigger is never forwarded, whichever way its command
\* went (no such command, denied, run, failed)
C25_ForwardOnlyNonCommands ==
    /\ Forwarded # <<>> =>
          /\ telegramBridge
          /\ ~(Len(cur.msg.text) > 0 /\ Head(cur.msg.text) = ".")
          /\ Forwarded = <<Op("forwardMessage", cur.msg, "telegram", <<>>)>>
    /\ (cur # Idle /\ Len(cur.msg.text) > 0 /\ Head(cur.msg.text) = ".") =>
          Forwarded = <<>>

\* a text with the trigger after a blank was forwarded, and by the copy of the
\* handler in realtime-bot.js
C25_Witness ==
    /\ Forwarded # <<>> /\ cur.pc = "done"
    /\ cur.msg.text = <<" ", ".", "ping">>
    /\ config.variant = "realtime"

\* C26: once startup is over, no error of the steady state ends the process:
\* whatever a push event, a polling tick, a send or a command handler throws,
\* the work a handler defers to a timer included, is contained, so a process
\* that received no signal does not start its shutdown
C26_SteadyStateContained == phase = "running"

\* C27: handleReconnection schedules a single retry: at most one reconnection
\* timer is pending at any time, and one failed connect attempt makes at most
\* one call of handleReconnection (one retry scheduled, one increment of
\* reconnectAttempts)
C27_SingleRetry ==
    /\ [](RetriesPending <= 1)
    /\ [][last'.op = "ConnectFails" => pendingHR' <= 1]_vars

\* C28: when the inbox fetch succeeds and every push connect fails, polling
\* starts after finitely many connect attempts: at most maxReconnectAttempts
\* retries are scheduled, every attempt after the initial one is one of them,
\* and in the end the state is Polling and stays so
C28_EventuallyPolling ==
    /\ [](bot.reconnectAttempts <= maxReconnectAttempts)
    /\ [](listeners <= 1 + bot.reconnectAttempts)
    /\ <>[](bot.isPolling /\ ~bot.isRealtimeConnected)

\* polling was started by the give-up of handleReconnection after connect
\* attempts that all failed at the push channel
C28_Witness ==
    /\ bot.isPolling /\ ~bot.isRealtimeConnected
    /\ bot.reconnectAttempts = maxReconnectAttempts
    /\ last.op = "HandleReconnection" /\ last.info = "giveup"
    /\ listeners = maxReconnectAttempts /\ ~channelOpen

\* disconnect() has been called
DisconnectCalled == phase \in {"closing", "saving", "returned", "exited"}

\* C29: from the call of disconnect() on the state is Disconnected and stays
\* so: no reconnection timer scheduled earlier and no 'disconnect' event of
\* the closing channel starts a connect attempt, schedules one or starts polling
C29_StaysDisconnected ==
    /\ [](DisconnectCalled => Disconnected)
    /\ [][DisconnectCalled =>
            /\ last'.op # "RetryTimerFires"
            /\ BagCardinality(timers'.retries) <= RetriesPending]_vars

\* C30: push 'message' events are handled one at a time: while one event's
\* handleRealtimeMessage is suspended, none is in progress for another message
C30_OneAtATime ==
    \A r, q \in BagToSet(pushRuns) : r.msg.item_id = q.msg.item_id

----------------------------------------------------------------------------
(* Claims about command parsing, listener sets and the polling watermark *)

\* C32: handleCommand's parse yields no empty token: none of the args it
\* derives from the text of a command, and none of the args a command handler
\* is invoked with, is the empty string, however many blanks separate the
\* tokens of the text
C32_NoEmptyArgs ==
    Commanded =>
        /\ \A i \in DOMAIN parse(cur.msg.text).args : parse(cur.msg.text).args[i] # ""
        /\ \A k \in DOMAIN cur.trace :
              cur.trace[k].op = "handler" =>
                  \A i \in DOMAIN cur.trace[k].args : cur.trace[k].args[i] # ""

\* how many times handleMessage was called for message id of conversation threadId
TimesHanded(threadId, id) ==
    LET same == {e \in BagToSet(handed) : e.threadId = threadId /\ e.id = id}
    IN  BagCardinality([e \in same |-> CopiesIn(e, handed)])

\* C33: every message (threadId, id) is passed to handleMessage at most once,
\* by whichever path and with however many listener sets on the push client
C33_HandedAtMostOnce ==
    \A e \in BagToSet(handed) : TimesHanded(e.threadId, e.id) <= 1

\* nothing delivers messages and nothing is under way that would: no open push
\* channel, no polling interval, no cooldown, retry or connect attempt pending
NothingDelivers ==
    /\ ~channelOpen /\ timers.intervals = {} /\ timers.cooldowns = 0
    /\ timers.retries = EmptyBag /\ calls = EmptyBag /\ pendingHR = 0

\* C34: while the process runs, a reported polling flag is backed by an active
\* polling interval (or by the pending rate-limit cooldown that is to re-arm
\* it), and the health check warns whenever nothing delivers messages
C34_PollingFlagBacked ==
    phase = "running" =>
        /\ getStats(bot).polling => (timers.intervals # {} \/ timers.cooldowns > 0)
        /\ NothingDelivers => healthWarns(getStats(bot))

\* C35: a tick that has examined a conversation whose latest message is from
\* another account and newer than the watermark the tick started with has
\* handed that message to handleMessage, whatever it examined before
C35_NewerThanStartDispatched ==
    \A r \in BagToSet(pollRuns) :
        (/\ r.pc \in {"handle", "delay"} /\ r.msg # NoMessage
         /\ ~isOwnMessage(r.msg) /\ messageTime(r.msg) > r.start) =>
            BagIn(Handed("poll", r.msg), handed)

\* a run q has entered the bag of runs in this step
Entered(q) == CopiesIn(q, pollRuns') > CopiesIn(q, pollRuns)

\* a run r has left the bag of runs in this step
Left(r) == CopiesIn(r, pollRuns') < CopiesIn(r, pollRuns)

\* the conversations a tick has yet to go through are the last ones of the
\* first three of the page
RestOfFirstThree(queue) ==
    LET page == InboxPage(threadLatest)
        last3 == IF Len(page) < 3 THEN Len(page) ELSE 3
    IN  /\ Len(queue) >= 1 /\ Len(queue) <= last3
        /\ queue = SubSeq(page, last3 - Len(queue) + 1, last3)

\* C31: a tick goes through at most the first 3 conversations of the page;
\* the check of a conversation starts only when the page has arrived or when
\* the delay after the previous conversation has elapsed; and a check that
\* is over, failed or not, is followed by the delay and the conversations
\* that remain: a tick ends only at the inbox request or after the delay of
\* its last conversation
C31_OneAfterAnother ==
    /\ [](\A r \in BagToSet(pollRuns) : r.pc # "inbox" => RestOfFirstThree(r.queue))
    /\ [][/\ \A q \in BagToSet(pollRuns') :
                (q.pc = "thread" /\ Entered(q)) =>
                    \E r \in BagToSet(pollRuns) :
                        /\ Left(r)
                        /\ \/ r.pc = "inbox"
                           \/ r.pc = "delay" /\ q.queue = Tail(r.queue)
          /\ \A r \in BagToSet(pollRuns) :
                (r.pc \in {"thread", "handle"} /\ Left(r)) =>
                    \E q \in BagToSet(pollRuns') :
                        Entered(q) /\ q.queue = r.queue /\ q.pc \in {"handle", "delay"}
          /\ BagCardinality(pollRuns') < BagCardinality(pollRuns) =>
                \E r \in BagToSet(pollRuns) :
                    Left(r) /\ (r.pc = "inbox" \/ (r.pc = "delay" /\ Len(r.queue) = 1))]_vars

\* the page holds four conversations; the checks of the first two failed, the
\* third one's message was handed over, and the tick is in its last delay
C31_Witness ==
    LET page == InboxPage(threadLatest)
    IN  /\ Len(page) = threadsPerTick + 1
        /\ \E r \in BagToSet(pollRuns) :
              /\ r.pc = "delay" /\ r.queue = <<page[3]>>
              /\ r.msg = threadLatest[page[3]]
              /\ BagIn(Handed("poll", r.msg), handed)

\* C36: lastMessageCheck never decreases; a message is handed over by a tick
\* only if its time is strictly greater than the watermark at that moment,
\* and then it is later than every message a tick handed over before
C36_PollTimesIncrease ==
    [][/\ lastMessageCheck' >= lastMessageCheck
       /\ \A e \in BagToSet(handed') :
             (e.via = "poll" /\ CopiesIn(e, handed') > CopiesIn(e, handed)) =>
                 /\ e.timestamp > lastMessageCheck
                 /\ \A f \in BagToSet(handed) : f.via = "poll" => f.timestamp < e.timestamp]_vars

\* two ticks are under way and two messages have been handed over by polling
C36_Witness ==
    /\ BagCardinality(pollRuns) = 2
    /\ \E e, f \in BagToSet(handed) :
          e.via = "poll" /\ f.via = "poll" /\ f.timestamp < e.timestamp

====
